---- MODULE Spec2Model ----
(***************************************************************************)
(* Authorization layer of the school management system: the permission     *)
(* classes of core/permissions.py, the queryset filters and permission     *)
(* wiring of core/views.py, and the role-group assignment.                 *)
(*                                                                         *)
(* Eight specifications share the variables:                               *)
(*   SpecPerm  the permission checks and queryset filters applied to a     *)
(*             relationship graph and a caller drawn at start;             *)
(*   SpecAtt   the attendance endpoints (create, update, destroy) as the   *)
(*             request pipeline runs them;                                 *)
(*   SpecRole  assign_user_to_group, one database statement per step,      *)
(*             with a reader of the user's groups beside it.               *)
(*   SpecApi   the School, Assessment, Grade and Class read endpoints and  *)
(*             the permission check of every ViewSet action;               *)
(*   SpecLetter    Grade.save as a function of marks and total;            *)
(*   SpecGrade     the Grade write endpoints and Assessment.total_marks;   *)
(*   SpecRoleConc  two assign_user_to_group calls that may overlap;        *)
(*   SpecBulk      the bulk mark_attendance action.                        *)
(***************************************************************************)
EXTENDS Integers, FiniteSets, Sequences, TLC

(* ------------------------------------------------------------------ *)
(* Bounds of the model                                                 *)
(* ------------------------------------------------------------------ *)
\* Rows the Attendance table may hold under SpecAtt.
MaxAtt == 1

\* Rows the School table may hold under SpecApi.
MaxSchools == 2

(* ------------------------------------------------------------------ *)
(* The universe: users, profiles, classes, records                     *)
(* ------------------------------------------------------------------ *)
NULL == "NULL"

Anonymous == "anon"

Users == {"u1", "u2", "u3", "u4"}

AllUsers == Users \cup {Anonymous}

Teachers == {"t1", "t2"}

Students == {"s1", "s2"}

Classes == {"c1", "c2"}

ClassSubjects == {"cs1", "cs2"}

Assessments == {"a1", "a2"}

\* Teacher.user, a one-to-one link: u1 is a teacher, u2 a teacher and a student.
TeacherUser == [t \in Teachers |-> IF t = "t1" THEN "u1" ELSE "u2"]

\* Student.user, a one-to-one link: u3 is a student, u2 a student and a teacher.
StudentUser == [s \in Students |-> IF s = "s1" THEN "u3" ELSE "u2"]

\* ClassSubject.class_instance
CsClass == [cs \in ClassSubjects |-> IF cs = "cs1" THEN "c1" ELSE "c2"]

\* Assessment.class_subject
AssessmentCs == [a \in Assessments |-> IF a = "a1" THEN "cs1" ELSE "cs2"]

ATTENDANCE_CHOICES == {"present", "absent", "late", "excused"}

\* The statuses the modelled requests submit: two of the choices.
SubmittedStatuses == {"present", "absent"}

SAFE_METHODS == {"GET", "HEAD", "OPTIONS"}

Methods == {"GET", "PUT"}

RoleTags == {"admin", "teacher", "student", "parent"}

Allow == "allow"

Deny == "deny"

Raise == "raise"

VARIABLES
    is_staff,       \* User.is_staff, per user
    groups,         \* User.groups, per user: a set of group names
    class_teacher,  \* Class.class_teacher, per class (NULL when unset)
    cs_teacher,     \* ClassSubject.teacher, per class subject
    current_class,  \* Student.current_class, per student
    published,      \* Assessment.is_published, per assessment
    attendance,     \* the Attendance table: a set of records
    grades,         \* the Grade table: a set of records
    resp,           \* the last request handled and its outcome
    auth_group,     \* the Group table: the names of the groups that exist
    calls,          \* assign_user_to_group invocations, per process
    returned,       \* the last two invocations that returned, latest first
    schools,        \* the School table: the ids of its rows
    total_marks     \* Assessment.total_marks, per assessment

vars == <<is_staff, groups, class_teacher, cs_teacher, current_class,
          published, attendance, grades, resp, auth_group, calls, returned,
          schools, total_marks>>

\* The relationships the checks read, the School table and the totals of
\* the assessments beside them.
graph == <<class_teacher, cs_teacher, current_class, published, schools,
           total_marks>>

identity == <<is_staff, groups, auth_group, calls, returned>>

(* ------------------------------------------------------------------ *)
(* Identity                                                            *)
(* ------------------------------------------------------------------ *)
is_authenticated(user) == user # Anonymous

IsStaff(user) == IF user = Anonymous THEN FALSE ELSE is_staff[user]

\* hasattr(user, 'teacher_profile')
HasTeacherProfile(user) == \E t \in Teachers : TeacherUser[t] = user

teacher_profile(user) == CHOOSE t \in Teachers : TeacherUser[t] = user

\* hasattr(user, 'student_profile')
HasStudentProfile(user) == \E s \in Students : StudentUser[s] = user

student_profile(user) == CHOOSE s \in Students : StudentUser[s] = user

(* ------------------------------------------------------------------ *)
(* Records as the permission classes see them                          *)
(* ------------------------------------------------------------------ *)
hasattr(obj, name) == name \in DOMAIN obj

StudentObj(s) ==
    [kind |-> "Student", id |-> s, user |-> StudentUser[s],
     current_class |-> current_class[s]]

AssessmentObj(a) ==
    [kind |-> "Assessment", id |-> a, class_subject |-> AssessmentCs[a],
     is_published |-> published[a]]

SchoolObj == [kind |-> "School", id |-> "school1"]

\* teacher.teaching_assignments.filter(class_instance=class_instance).exists()
teaching_assignments_exists(teacher, class_instance) ==
    \E cs \in ClassSubjects :
        cs_teacher[cs] = teacher /\ CsClass[cs] = class_instance

B(b) == IF b THEN Allow ELSE Deny

(* ------------------------------------------------------------------ *)
(* core/permissions.py: the permission classes                          *)
(* ------------------------------------------------------------------ *)
\* Variant of IsAdminUser.has_permission that asks for authentication only.
IsAdminUser_has_permission_Authenticated(user) == B(is_authenticated(user))

IsAdminUser_has_permission(user) ==
    B(is_authenticated(user) /\ IsStaff(user))

\* rest_framework.permissions.IsAuthenticated, as the views import it
IsAuthenticated_has_permission(user) == B(is_authenticated(user))

IsTeacherUser_has_permission(user) ==
    IF ~is_authenticated(user) THEN Deny ELSE B(HasTeacherProfile(user))

IsStudentUser_has_permission(user) ==
    IF ~is_authenticated(user) THEN Deny ELSE B(HasStudentProfile(user))

IsOwnerOrReadOnly_has_object_permission(user, method, obj) ==
    IF method \in SAFE_METHODS THEN B(is_authenticated(user))
    ELSE IF hasattr(obj, "user") THEN B(obj.user = user)
    ELSE Deny

IsTeacherOfClassOrReadOnly_has_object_permission(user, method, obj) ==
    IF method \in SAFE_METHODS THEN B(is_authenticated(user))
    ELSE IF HasTeacherProfile(user)
    THEN LET teacher == teacher_profile(user) IN
         IF hasattr(obj, "current_class")
         THEN LET class_instance == obj.current_class IN
              B(\/ class_teacher[class_instance] = teacher
                \/ teaching_assignments_exists(teacher, class_instance))
         ELSE IF hasattr(obj, "student")
         THEN LET class_instance == current_class[obj.student] IN
              B(\/ class_teacher[class_instance] = teacher
                \/ teaching_assignments_exists(teacher, class_instance))
         ELSE IF hasattr(obj, "class_subject")
         THEN IF obj.class_subject = NULL THEN Raise
              ELSE B(cs_teacher[obj.class_subject] = teacher)
         ELSE Deny
    ELSE Deny

\* Variant of CanManageAttendance.has_permission that admits administrators
\* only.
CanManageAttendance_has_permission_StaffOnly(user) ==
    IF ~is_authenticated(user) THEN Deny
    ELSE B(IsStaff(user))

CanManageAttendance_has_permission(user) ==
    IF ~is_authenticated(user) THEN Deny
    ELSE B(IsStaff(user) \/ HasTeacherProfile(user))

CanManageGrades_has_permission(user) ==
    IF ~is_authenticated(user) THEN Deny
    ELSE B(IsStaff(user) \/ HasTeacherProfile(user))

\* Variant of CanManageGrades.has_object_permission that compares the caller
\* with the class teacher of the student's class instead of the teacher of
\* the assessment's class subject.
CanManageGrades_has_object_permission_ClassTeacher(user, method, obj) ==
    IF method \in SAFE_METHODS THEN Allow
    ELSE IF HasTeacherProfile(user) /\ hasattr(obj, "assessment")
    THEN B(class_teacher[current_class[obj.student]] = teacher_profile(user))
    ELSE IF HasTeacherProfile(user) /\ hasattr(obj, "class_subject")
    THEN IF obj.class_subject = NULL THEN Raise
         ELSE B(cs_teacher[obj.class_subject] = teacher_profile(user))
    ELSE B(IsStaff(user))

CanManageGrades_has_object_permission(user, method, obj) ==
    IF method \in SAFE_METHODS THEN Allow
    ELSE IF HasTeacherProfile(user) /\ hasattr(obj, "assessment")
    THEN B(cs_teacher[AssessmentCs[obj.assessment]] = teacher_profile(user))
    ELSE IF HasTeacherProfile(user) /\ hasattr(obj, "class_subject")
    THEN IF obj.class_subject = NULL THEN Raise
         ELSE B(cs_teacher[obj.class_subject] = teacher_profile(user))
    ELSE B(IsStaff(user))

CanViewStudentData_has_permission(user) ==
    IF ~is_authenticated(user) THEN Deny ELSE Allow

\* Variant of CanViewStudentData.has_object_permission that tests the teacher
\* profile before the student profile.
CanViewStudentData_has_object_permission_TeacherFirst(user, method, obj) ==
    IF IsStaff(user) THEN Allow
    ELSE IF HasTeacherProfile(user)
    THEN LET teacher == teacher_profile(user) IN
         IF hasattr(obj, "current_class")
         THEN LET class_instance == obj.current_class IN
              B(\/ class_teacher[class_instance] = teacher
                \/ teaching_assignments_exists(teacher, class_instance))
         ELSE IF hasattr(obj, "student")
         THEN LET class_instance == current_class[obj.student] IN
              B(\/ class_teacher[class_instance] = teacher
                \/ teaching_assignments_exists(teacher, class_instance))
         ELSE Deny
    ELSE IF HasStudentProfile(user) /\ hasattr(obj, "user")
    THEN B(obj.user = user)
    ELSE Deny


CanViewStudentData_has_object_permission(user, method, obj) ==
    IF IsStaff(user) THEN Allow
    ELSE IF HasStudentProfile(user) /\ hasattr(obj, "user")
    THEN B(obj.user = user)
    ELSE IF HasTeacherProfile(user)
    THEN LET teacher == teacher_profile(user) IN
         IF hasattr(obj, "current_class")
         THEN LET class_instance == obj.current_class IN
              B(\/ class_teacher[class_instance] = teacher
                \/ teaching_assignments_exists(teacher, class_instance))
         ELSE IF hasattr(obj, "student")
         THEN LET class_instance == current_class[obj.student] IN
              B(\/ class_teacher[class_instance] = teacher
                \/ teaching_assignments_exists(teacher, class_instance))
         ELSE Deny
    ELSE Deny

\* The classes of permissions.py that define has_permission themselves.
CoarseRules ==
    {"IsAdminUser", "IsTeacherUser", "IsStudentUser", "CanManageAttendance",
     "CanManageGrades", "CanViewStudentData"}

\* The classes of permissions.py that define has_object_permission themselves.
ObjectRules ==
    {"IsOwnerOrReadOnly", "IsTeacherOfClassOrReadOnly", "CanManageGrades",
     "CanViewStudentData"}

\* permission.has_permission(request, view); a class that does not define it
\* inherits BasePermission's, which returns True.
has_permission(rule, user) ==
    CASE rule = "IsAdminUser" -> IsAdminUser_has_permission(user)
      [] rule = "IsAuthenticated" -> IsAuthenticated_has_permission(user)
      [] rule = "IsTeacherUser" -> IsTeacherUser_has_permission(user)
      [] rule = "IsStudentUser" -> IsStudentUser_has_permission(user)
      [] rule = "CanManageAttendance" -> CanManageAttendance_has_permission(user)
      [] rule = "CanManageGrades" -> CanManageGrades_has_permission(user)
      [] rule = "CanViewStudentData" -> CanViewStudentData_has_permission(user)
      [] OTHER -> Allow

\* permission.has_object_permission(request, view, obj); a class that does not
\* define it inherits BasePermission's, which returns True.
has_object_permission(rule, user, method, obj) ==
    CASE rule = "IsOwnerOrReadOnly" ->
            IsOwnerOrReadOnly_has_object_permission(user, method, obj)
      [] rule = "IsTeacherOfClassOrReadOnly" ->
            IsTeacherOfClassOrReadOnly_has_object_permission(user, method, obj)
      [] rule = "CanManageGrades" ->
            CanManageGrades_has_object_permission(user, method, obj)
      [] rule = "CanViewStudentData" ->
            CanViewStudentData_has_object_permission(user, method, obj)
      [] OTHER -> Allow

(* ------------------------------------------------------------------ *)
(* core/views.py: permission wiring and queryset filters               *)
(* ------------------------------------------------------------------ *)
WriteActions == {"create", "update", "partial_update", "destroy"}

ReadActions == {"list", "retrieve"}

Views ==
    {"School", "Department", "Subject", "Teacher", "Class", "Student",
     "ClassSubject", "Attendance", "Assessment", "Grade", "TimeTable"}

ScopedViews == {"Student", "Attendance", "Assessment", "Grade"}

\* Variant of the wiring that follows the docstring of
\* AssessmentViewSet.get_permissions: teachers pass the check of the write
\* actions on Assessment.
get_permissions_TeachersWriteAssessments(view, action) ==
    CASE view \in {"School", "Department"} -> "IsAdminUser"
      [] view = "Assessment" ->
            IF action \in WriteActions THEN "IsTeacherUser"
            ELSE "IsAuthenticated"
      [] view \in {"Subject", "Teacher", "Class", "ClassSubject", "TimeTable"} ->
            IF action \in WriteActions THEN "IsAdminUser" ELSE "IsAuthenticated"
      [] view = "Student" ->
            IF action \in WriteActions THEN "IsAdminUser"
            ELSE "CanViewStudentData"
      [] view = "Attendance" -> "CanManageAttendance"
      [] view = "Grade" -> "CanManageGrades"

\* Variant of the wiring in which School and Department follow the other
\* ViewSets: IsAdminUser for the write actions, IsAuthenticated otherwise.
get_permissions_ReadOpen(view, action) ==
    CASE view \in {"School", "Department", "Subject", "Teacher", "Class",
                   "ClassSubject", "TimeTable", "Assessment"} ->
            IF action \in WriteActions THEN "IsAdminUser" ELSE "IsAuthenticated"
      [] view = "Student" ->
            IF action \in WriteActions THEN "IsAdminUser"
            ELSE "CanViewStudentData"
      [] view = "Attendance" -> "CanManageAttendance"
      [] view = "Grade" -> "CanManageGrades"

\* permission_classes / get_permissions() of each ViewSet
get_permissions(view, action) ==
    CASE view \in {"School", "Department"} -> "IsAdminUser"
      [] view \in {"Subject", "Teacher", "Class", "ClassSubject", "TimeTable",
                   "Assessment"} ->
            IF action \in WriteActions THEN "IsAdminUser" ELSE "IsAuthenticated"
      [] view = "Student" ->
            IF action \in WriteActions THEN "IsAdminUser"
            ELSE "CanViewStudentData"
      [] view = "Attendance" -> "CanManageAttendance"
      [] view = "Grade" -> "CanManageGrades"

\* Variant of StudentViewSet.get_queryset whose teacher branch follows the
\* teaching assignments only.
StudentViewSet_get_queryset_AssignmentsOnly(user) ==
    IF IsStaff(user) THEN Students
    ELSE IF HasStudentProfile(user)
    THEN {s \in Students : StudentUser[s] = user}
    ELSE IF HasTeacherProfile(user)
    THEN LET teacher == teacher_profile(user) IN
         {s \in Students :
            \E cs \in ClassSubjects :
                CsClass[cs] = current_class[s] /\ cs_teacher[cs] = teacher}
    ELSE {}

StudentViewSet_get_queryset(user) ==
    IF IsStaff(user) THEN Students
    ELSE IF HasStudentProfile(user)
    THEN {s \in Students : StudentUser[s] = user}
    ELSE IF HasTeacherProfile(user)
    THEN LET teacher == teacher_profile(user) IN
         {s \in Students :
            \/ class_teacher[current_class[s]] = teacher
            \/ \E cs \in ClassSubjects :
                  CsClass[cs] = current_class[s] /\ cs_teacher[cs] = teacher}
    ELSE {}

\* Variant of AttendanceViewSet.get_queryset that tests the teacher profile
\* before is_staff.
AttendanceViewSet_get_queryset_TeacherFirst(user) ==
    IF HasTeacherProfile(user)
    THEN LET teacher == teacher_profile(user) IN
         {r \in attendance :
            \/ class_teacher[current_class[r.student]] = teacher
            \/ (r.class_subject # NULL /\ cs_teacher[r.class_subject] = teacher)}
    ELSE IF IsStaff(user) THEN attendance
    ELSE {}

\* Variant of AttendanceViewSet.get_queryset whose teacher branch looks at the
\* class teacher of the student's class only.
AttendanceViewSet_get_queryset_ClassTeacherOnly(user) ==
    IF IsStaff(user) THEN attendance
    ELSE IF HasTeacherProfile(user)
    THEN LET teacher == teacher_profile(user) IN
         {r \in attendance :
            class_teacher[current_class[r.student]] = teacher}
    ELSE {}

\* Variant of AttendanceViewSet.get_queryset that hands a teacher every row.
AttendanceViewSet_get_queryset_Unfiltered(user) ==
    IF IsStaff(user) THEN attendance
    ELSE IF HasTeacherProfile(user) THEN attendance
    ELSE {}

AttendanceViewSet_get_queryset(user) ==
    IF IsStaff(user) THEN attendance
    ELSE IF HasTeacherProfile(user)
    THEN LET teacher == teacher_profile(user) IN
         {r \in attendance :
            \/ class_teacher[current_class[r.student]] = teacher
            \/ (r.class_subject # NULL /\ cs_teacher[r.class_subject] = teacher)}
    ELSE {}

\* Variant of AssessmentViewSet.get_queryset whose student branch leaves out
\* is_published=True.
AssessmentViewSet_get_queryset_IgnoresPublished(user) ==
    IF IsStaff(user) THEN Assessments
    ELSE IF HasTeacherProfile(user)
    THEN {a \in Assessments : cs_teacher[AssessmentCs[a]] = teacher_profile(user)}
    ELSE IF HasStudentProfile(user)
    THEN {a \in Assessments :
            CsClass[AssessmentCs[a]] = current_class[student_profile(user)]}
    ELSE Assessments

AssessmentViewSet_get_queryset(user) ==
    IF IsStaff(user) THEN Assessments
    ELSE IF HasTeacherProfile(user)
    THEN {a \in Assessments : cs_teacher[AssessmentCs[a]] = teacher_profile(user)}
    ELSE IF HasStudentProfile(user)
    THEN {a \in Assessments :
            /\ CsClass[AssessmentCs[a]] = current_class[student_profile(user)]
            /\ published[a]}
    ELSE Assessments

GradeViewSet_get_queryset(user) ==
    IF IsStaff(user) THEN grades
    ELSE IF HasTeacherProfile(user)
    THEN {g \in grades :
            cs_teacher[AssessmentCs[g.assessment]] = teacher_profile(user)}
    ELSE IF HasStudentProfile(user)
    THEN {g \in grades : g.student = student_profile(user)}
    ELSE {}

\* The ids of the records a ViewSet's get_queryset() hands the caller.
get_queryset(view, user) ==
    CASE view = "Student" -> StudentViewSet_get_queryset(user)
      [] view = "Attendance" -> {r.id : r \in AttendanceViewSet_get_queryset(user)}
      [] view = "Assessment" -> AssessmentViewSet_get_queryset(user)
      [] view = "Grade" -> {g.id : g \in GradeViewSet_get_queryset(user)}

\* queryset attribute of the ViewSet: every record of the table.
full_queryset(view) ==
    CASE view = "Student" -> Students
      [] view = "Attendance" -> {r.id : r \in attendance}
      [] view = "Assessment" -> Assessments
      [] view = "Grade" -> {g.id : g \in grades}

(* ------------------------------------------------------------------ *)
(* Requests and responses                                              *)
(* ------------------------------------------------------------------ *)
NoObj == [kind |-> "None"]

NoData == [student |-> NULL, class_subject |-> NULL, status |-> NULL]

NoResp ==
    [op |-> "none", rule |-> NULL, view |-> NULL, user |-> Anonymous,
     method |-> NULL, obj |-> NoObj, result |-> NULL, items |-> {},
     status |-> 0, target |-> 0, data |-> NoData]

\* One Attendance row per (student, class_subject), class_subject nullable.
AttendanceKeys == Students \X (ClassSubjects \cup {NULL})

AttendanceKeyId(k) ==
    (IF k[1] = "s1" THEN 0 ELSE 3)
    + (IF k[2] = NULL THEN 1 ELSE IF k[2] = "cs1" THEN 2 ELSE 3)

EveryAttendance ==
    {[kind |-> "Attendance", id |-> AttendanceKeyId(k), student |-> k[1],
      class_subject |-> k[2], status |-> "present"] : k \in AttendanceKeys}

\* One Grade row per (student, assessment): unique_together of Grade.
GradeKeys == Students \X Assessments

GradeKeyId(k) ==
    (IF k[1] = "s1" THEN 0 ELSE 2) + (IF k[2] = "a1" THEN 1 ELSE 2)

EveryGrade ==
    {[kind |-> "Grade", id |-> GradeKeyId(k), student |-> k[1],
      assessment |-> k[2], marks_obtained |-> 1] : k \in GradeKeys}

\* At most one user holds is_staff at start.
InitStaff ==
    is_staff \in {f \in [Users -> BOOLEAN] :
                    Cardinality({u \in Users : f[u]}) <= 1}

\* s1 sits in c1 and a2 is published; everything else of the graph is drawn.
InitGraph ==
    /\ class_teacher \in [Classes -> Teachers \cup {NULL}]
    /\ cs_teacher \in [ClassSubjects -> Teachers]
    /\ current_class \in {f \in [Students -> Classes] : f["s1"] = "c1"}
    /\ published \in {f \in [Assessments -> BOOLEAN] : f["a2"]}

Procs == {"p1", "p2"}

NoCall ==
    [pc |-> "idle", user |-> NULL, role |-> NULL, i |-> 0,
     before |-> {}, staff_before |-> FALSE, ret |-> FALSE]

NoCalls == [p \in Procs |-> NoCall]

\* Every assessment is marked out of the same total unless a run changes it.
DefaultTotals == [a \in Assessments |-> 10]

(* ------------------------------------------------------------------ *)
(* SpecPerm: the checks and filters as functions of caller and graph   *)
(* ------------------------------------------------------------------ *)
InitPerm ==
    /\ InitStaff
    /\ InitGraph
    /\ groups = [u \in Users |-> {}]
    /\ attendance = EveryAttendance
    /\ grades = EveryGrade
    /\ resp = NoResp
    /\ auth_group = {}
    /\ calls = NoCalls
    /\ returned = <<>>
    /\ schools = {}
    /\ total_marks = DefaultTotals

\* The server takes a request when no response is pending.
Idle == resp.op = "none"

\* The response is handed back to the client.
Respond ==
    /\ ~Idle
    /\ resp' = NoResp
    /\ UNCHANGED <<identity, graph, attendance, grades>>

\* A check that would call create_user_groups() on its way: the Group table
\* gains the rows get_or_create makes.
CheckPermission_CreatingGroups(rule, user) ==
    /\ Idle
    /\ resp' = [NoResp EXCEPT !.op = "has_permission", !.rule = rule,
                              !.user = user,
                              !.result = has_permission(rule, user)]
    /\ auth_group' = auth_group \cup {"School Administrators"}
    /\ UNCHANGED <<is_staff, groups, calls, returned, graph, attendance, grades>>

CheckPermission(rule, user) ==
    /\ Idle
    /\ resp' = [NoResp EXCEPT !.op = "has_permission", !.rule = rule,
                              !.user = user,
                              !.result = has_permission(rule, user)]
    /\ UNCHANGED <<identity, graph, attendance, grades>>

DoCheckObject(rule, user, method, obj) ==
    /\ Idle
    /\ resp' = [NoResp EXCEPT !.op = "has_object_permission", !.rule = rule,
                              !.user = user, !.method = method, !.obj = obj,
                              !.result =
                                 has_object_permission(rule, user, method, obj)]
    /\ UNCHANGED <<identity, graph, attendance, grades>>

CheckObjectPermission(rule, user, method) ==
    \/ \E s \in Students : DoCheckObject(rule, user, method, StudentObj(s))
    \/ \E r \in attendance : DoCheckObject(rule, user, method, r)
    \/ \E a \in Assessments : DoCheckObject(rule, user, method, AssessmentObj(a))
    \/ \E g \in grades : DoCheckObject(rule, user, method, g)
    \/ DoCheckObject(rule, user, method, SchoolObj)

FilterCollection(view, user) ==
    /\ Idle
    /\ resp' = [NoResp EXCEPT !.op = "get_queryset", !.view = view,
                              !.user = user,
                              !.items = get_queryset(view, user)]
    /\ UNCHANGED <<identity, graph, attendance, grades>>

NextPerm ==
    \/ Idle /\ \E rule \in CoarseRules \cup {"IsAuthenticated"}, user \in AllUsers :
          CheckPermission(rule, user)
    \/ Idle /\ \E rule \in ObjectRules, user \in AllUsers, method \in Methods :
          CheckObjectPermission(rule, user, method)
    \/ Idle /\ \E view \in ScopedViews, user \in AllUsers :
          FilterCollection(view, user)
    \/ Respond

SpecPerm == InitPerm /\ [][NextPerm]_vars

(* ------------------------------------------------------------------ *)
(* Claims checked under SpecPerm                                       *)
(* ------------------------------------------------------------------ *)
Unsafe(method) == method \notin SAFE_METHODS

\* The record kind a permission class is handed by the ViewSet that uses it:
\* GradeViewSet uses CanManageGrades, StudentViewSet uses CanViewStudentData.
ServedBy(rule, obj) ==
    \/ rule = "CanManageGrades" /\ obj.kind = "Grade"
    \/ rule = "CanViewStudentData" /\ obj.kind = "Student"

\* C1: a caller with is_authenticated = false is denied by every coarse check
\* and by every object-level check of every permission class, for every
\* method and every target record (here: every record of the kind the class
\* is used for).
C1_UnauthenticatedDeniedEverywhere ==
    (/\ \/ resp.op = "has_permission"
        \/ resp.op = "has_object_permission" /\ ServedBy(resp.rule, resp.obj)
     /\ ~is_authenticated(resp.user))
    => resp.result = Deny

\* C2: an administrator, whatever teacher or student link the administrator
\* also holds, is allowed by the object-level check of the permission classes
\* the ViewSets use, on every target record of the kind the class is used
\* for, for reads and for writes.
C2_AdministratorAllowedOnEveryTarget ==
    (/\ resp.op = "has_object_permission"
     /\ ServedBy(resp.rule, resp.obj)
     /\ IsStaff(resp.user))
    => resp.result = Allow

\* C3: for an administrator, whatever teacher or student link the
\* administrator also holds, get_queryset of the Student, Attendance,
\* Assessment and Grade ViewSets returns every record of the table.
C3_AdministratorSeesFullCollection ==
    (/\ resp.op = "get_queryset"
     /\ IsStaff(resp.user))
    => resp.items = full_queryset(resp.view)

\* An administrator who is also a teacher listed attendance and received all
\* rows, among them one that the teacher filter alone would have left out.
C3_Witness ==
    /\ resp.op = "get_queryset"
    /\ resp.view = "Attendance"
    /\ IsStaff(resp.user)
    /\ HasTeacherProfile(resp.user)
    /\ resp.items = {r.id : r \in attendance}
    /\ \E r \in attendance :
          /\ class_teacher[current_class[r.student]] # teacher_profile(resp.user)
          /\ r.class_subject # NULL
          /\ cs_teacher[r.class_subject] # teacher_profile(resp.user)

\* C10: for a teacher who is not an administrator, the object-level check of
\* CanManageGrades allows a write on a Grade exactly when the teacher of the
\* class subject of the grade's assessment is that teacher; an authenticated
\* caller who is neither administrator nor teacher is denied by the coarse
\* check and by the object-level check of every Grade write.
C10_GradeWriteOnlyByOwningTeacher ==
    /\ (/\ resp.op = "has_object_permission"
        /\ resp.rule = "CanManageGrades"
        /\ Unsafe(resp.method)
        /\ resp.obj.kind = "Grade"
        /\ ~IsStaff(resp.user)
        /\ HasTeacherProfile(resp.user))
       => (resp.result = Allow
             <=> cs_teacher[AssessmentCs[resp.obj.assessment]]
                    = teacher_profile(resp.user))
    /\ (/\ resp.rule = "CanManageGrades"
        /\ \/ resp.op = "has_permission"
           \/ (/\ resp.op = "has_object_permission"
               /\ Unsafe(resp.method)
               /\ resp.obj.kind = "Grade")
        /\ is_authenticated(resp.user)
        /\ ~IsStaff(resp.user)
        /\ ~HasTeacherProfile(resp.user))
       => resp.result = Deny

\* A teacher without is_staff was allowed a write on a grade of an assessment
\* of the teacher's own class subject, in a class another teacher heads.
C10_Witness ==
    /\ resp.op = "has_object_permission"
    /\ resp.rule = "CanManageGrades"
    /\ resp.method = "PUT"
    /\ resp.obj.kind = "Grade"
    /\ ~IsStaff(resp.user)
    /\ HasTeacherProfile(resp.user)
    /\ resp.result = Allow
    /\ class_teacher[current_class[resp.obj.student]] # teacher_profile(resp.user)

(* ------------------------------------------------------------------ *)
(* SpecAtt: the attendance endpoints of AttendanceViewSet              *)
(* ------------------------------------------------------------------ *)
HTTP_200_OK == 200

HTTP_201_CREATED == 201

HTTP_204_NO_CONTENT == 204

HTTP_400_BAD_REQUEST == 400

HTTP_403_FORBIDDEN == 403

HTTP_404_NOT_FOUND == 404

HTTP_500_INTERNAL_SERVER_ERROR == 500

\* Request bodies: (student, class_subject, status) with a date the student
\* has no row for and a marked_by teacher, and one body whose status is not
\* among ATTENDANCE_CHOICES.
AttendanceInputs ==
    [student : Students, class_subject : ClassSubjects \cup {NULL},
     status : SubmittedStatuses]
    \cup {[student |-> "s1", class_subject |-> NULL, status |-> "holiday"]}

\* AttendanceSerializer.is_valid()
is_valid(data) ==
    /\ data.student \in Students
    /\ data.class_subject \in ClassSubjects \cup {NULL}
    /\ data.status \in ATTENDANCE_CHOICES

AttIds == 1..MaxAtt

UsedIds == {r.id : r \in attendance}

\* The primary key of a new row: one no row of the table carries.
FreshId == CHOOSE i \in AttIds \ UsedIds : \A j \in AttIds \ UsedIds : i <= j

AttendanceRow(id, data) ==
    [kind |-> "Attendance", id |-> id, student |-> data.student,
     class_subject |-> data.class_subject, status |-> data.status]

\* APIView.check_permissions(): the view's permission class, asked first.
check_permissions(view, action, user) ==
    has_permission(get_permissions(view, action), user)

\* Variant of get_object() that looks the row up in the whole table instead
\* of get_queryset().
AttendanceLookup_WholeTable(user, method, id) ==
    LET found == {r \in attendance : r.id = id} IN
    IF found = {} THEN HTTP_404_NOT_FOUND
    ELSE LET obj == CHOOSE r \in found : TRUE
             verdict == has_object_permission(
                            get_permissions("Attendance", "update"),
                            user, method, obj) IN
         IF verdict = Raise THEN HTTP_500_INTERNAL_SERVER_ERROR
         ELSE IF verdict = Deny THEN HTTP_403_FORBIDDEN
         ELSE HTTP_200_OK


\* GenericAPIView.get_object() on the attendance endpoints: the row is looked
\* up in get_queryset() (404 when it is not there), then
\* check_object_permissions() asks the permission class (403, or 500 when the
\* check raises).
AttendanceLookup(user, method, id) ==
    LET found == {r \in AttendanceViewSet_get_queryset(user) : r.id = id} IN
    IF found = {} THEN HTTP_404_NOT_FOUND
    ELSE LET obj == CHOOSE r \in found : TRUE
             verdict == has_object_permission(
                            get_permissions("Attendance", "update"),
                            user, method, obj) IN
         IF verdict = Raise THEN HTTP_500_INTERNAL_SERVER_ERROR
         ELSE IF verdict = Deny THEN HTTP_403_FORBIDDEN
         ELSE HTTP_200_OK

\* The row a detail request ends up holding, if get_object() returned one.
AttendanceObject(user, id) ==
    LET found == {r \in AttendanceViewSet_get_queryset(user) : r.id = id} IN
    IF found = {} THEN NoObj ELSE CHOOSE r \in found : TRUE

AttRequest(op, user, method, id, data, status, obj) ==
    [NoResp EXCEPT !.op = op, !.view = "Attendance", !.user = user,
                   !.method = method, !.target = id, !.data = data,
                   !.status = status, !.obj = obj]

\* POST /api/attendance/
AttendanceCreate(user, data) ==
    /\ Idle
    /\ IF check_permissions("Attendance", "create", user) # Allow
       THEN /\ resp' = AttRequest("create", user, "POST", 0, data,
                                  HTTP_403_FORBIDDEN, NoObj)
            /\ UNCHANGED attendance
       ELSE IF ~is_valid(data)
       THEN /\ resp' = AttRequest("create", user, "POST", 0, data,
                                  HTTP_400_BAD_REQUEST, NoObj)
            /\ UNCHANGED attendance
       ELSE /\ AttIds \ UsedIds # {}
            /\ attendance' = attendance \cup {AttendanceRow(FreshId, data)}
            /\ resp' = AttRequest("create", user, "POST", FreshId, data,
                                  HTTP_201_CREATED,
                                  AttendanceRow(FreshId, data))
    /\ UNCHANGED <<identity, graph, grades>>

\* PUT /api/attendance/<id>/
AttendanceUpdate(user, id, data) ==
    /\ Idle
    /\ IF check_permissions("Attendance", "update", user) # Allow
       THEN /\ resp' = AttRequest("update", user, "PUT", id, data,
                                  HTTP_403_FORBIDDEN, NoObj)
            /\ UNCHANGED attendance
       ELSE IF AttendanceLookup(user, "PUT", id) # HTTP_200_OK
       THEN /\ resp' = AttRequest("update", user, "PUT", id, data,
                                  AttendanceLookup(user, "PUT", id),
                                  AttendanceObject(user, id))
            /\ UNCHANGED attendance
       ELSE IF ~is_valid(data)
       THEN /\ resp' = AttRequest("update", user, "PUT", id, data,
                                  HTTP_400_BAD_REQUEST,
                                  AttendanceObject(user, id))
            /\ UNCHANGED attendance
       ELSE /\ attendance' = {r \in attendance : r.id # id}
                                \cup {AttendanceRow(id, data)}
            /\ resp' = AttRequest("update", user, "PUT", id, data, HTTP_200_OK,
                                  AttendanceObject(user, id))
    /\ UNCHANGED <<identity, graph, grades>>

\* DELETE /api/attendance/<id>/
AttendanceDestroy(user, id) ==
    /\ Idle
    /\ IF check_permissions("Attendance", "destroy", user) # Allow
       THEN /\ resp' = AttRequest("destroy", user, "DELETE", id, NoData,
                                  HTTP_403_FORBIDDEN, NoObj)
            /\ UNCHANGED attendance
       ELSE IF AttendanceLookup(user, "DELETE", id) # HTTP_200_OK
       THEN /\ resp' = AttRequest("destroy", user, "DELETE", id, NoData,
                                  AttendanceLookup(user, "DELETE", id),
                                  AttendanceObject(user, id))
            /\ UNCHANGED attendance
       ELSE /\ attendance' = {r \in attendance : r.id # id}
            /\ resp' = AttRequest("destroy", user, "DELETE", id, NoData,
                                  HTTP_204_NO_CONTENT,
                                  AttendanceObject(user, id))
    /\ UNCHANGED <<identity, graph, grades>>

\* The graph under SpecAtt: s1 sits in c1, cs2 is taught by t2, c2 is headed
\* by t1 or by nobody; is_staff is held by nobody, by the teacher u1 or by u4.
InitAtt ==
    /\ is_staff \in {[u \in Users |-> u \in S] : S \in {{}, {"u1"}, {"u4"}}}
    /\ class_teacher \in {f \in [Classes -> Teachers \cup {NULL}] : f["c2"] # "t2"}
    /\ cs_teacher \in {f \in [ClassSubjects -> Teachers] : f["cs2"] = "t2"}
    /\ current_class \in {f \in [Students -> Classes] : f["s1"] = "c1"}
    /\ published = [a \in Assessments |-> TRUE]
    /\ groups = [u \in Users |-> {}]
    /\ attendance = {}
    /\ grades = {}
    /\ resp = NoResp
    /\ auth_group = {}
    /\ calls = NoCalls
    /\ returned = <<>>
    /\ schools = {}
    /\ total_marks = DefaultTotals

NextAtt ==
    \/ Idle /\ \E user \in AllUsers, data \in AttendanceInputs :
          AttendanceCreate(user, data)
    \/ Idle /\ \E user \in AllUsers, id \in AttIds, data \in AttendanceInputs :
          AttendanceUpdate(user, id, data)
    \/ Idle /\ \E user \in AllUsers, id \in AttIds :
          AttendanceDestroy(user, id)
    \/ Respond

SpecAtt == InitAtt /\ [][NextAtt]_vars

(* ------------------------------------------------------------------ *)
(* Claims checked under SpecAtt                                        *)
(* ------------------------------------------------------------------ *)
AttendanceWrite ==
    resp.view = "Attendance" /\ resp.op \in {"create", "update", "destroy"}

Succeeded ==
    resp.status \in {HTTP_200_OK, HTTP_201_CREATED, HTTP_204_NO_CONTENT}

\* Classes the teacher heads or has a teaching assignment in.
resolve_teacher_scope(teacher) ==
    {c \in Classes :
        class_teacher[c] = teacher \/ teaching_assignments_exists(teacher, c)}

\* The class an attendance row belongs to: that of its class subject, and
\* that of its student.
RecordClasses(row) ==
    {current_class[row.student]}
    \cup (IF row.class_subject = NULL THEN {} ELSE {CsClass[row.class_subject]})

\* C8 (as claimed): a teacher who is not an administrator writes (creates,
\* updates, deletes) an Attendance record only when the record's class is in
\* the teacher's scope, and a caller who is neither administrator nor teacher
\* writes none.
C8_AttendanceWriteOnlyInScope ==
    (AttendanceWrite /\ Succeeded /\ ~IsStaff(resp.user))
    => /\ HasTeacherProfile(resp.user)
       /\ RecordClasses(resp.obj)
             \cap resolve_teacher_scope(teacher_profile(resp.user)) # {}

\* C8 (amended): a teacher who is not an administrator updates or deletes an
\* Attendance record only when the teacher heads the class of the record's
\* student or teaches the record's class subject; creating is open to every
\* teacher; a caller who is neither administrator nor teacher is refused
\* every attendance write with 403.
C8_AttendanceUpdateOnlyInFilter ==
    /\ (AttendanceWrite /\ Succeeded /\ ~IsStaff(resp.user))
       => HasTeacherProfile(resp.user)
    /\ (/\ AttendanceWrite
        /\ resp.op \in {"update", "destroy"}
        /\ Succeeded
        /\ ~IsStaff(resp.user))
       => \/ class_teacher[current_class[resp.obj.student]]
                = teacher_profile(resp.user)
          \/ /\ resp.obj.class_subject # NULL
             /\ cs_teacher[resp.obj.class_subject] = teacher_profile(resp.user)
    /\ (AttendanceWrite /\ ~IsStaff(resp.user) /\ ~HasTeacherProfile(resp.user))
       => resp.status = HTTP_403_FORBIDDEN
    /\ (/\ AttendanceWrite
        /\ resp.op = "create"
        /\ HasTeacherProfile(resp.user)
        /\ is_valid(resp.data))
       => resp.status = HTTP_201_CREATED

\* A teacher without is_staff updated a row of a class another teacher (or
\* nobody) heads, reaching it through the row's class subject.
C8_Witness ==
    /\ AttendanceWrite
    /\ resp.op = "update"
    /\ resp.status = HTTP_200_OK
    /\ ~IsStaff(resp.user)
    /\ HasTeacherProfile(resp.user)
    /\ class_teacher[current_class[resp.obj.student]] # teacher_profile(resp.user)
    /\ resp.obj.status # resp.data.status

\* C9: when an administrator or a caller with a teacher profile posts a valid
\* attendance record, the request succeeds with 201, exactly one row is added
\* to the table and no other row changes, and the new row carries the
\* submitted student and status.
C9_CreateStoresSubmittedRecord ==
    [][(/\ resp'.op = "create"
        /\ resp.op = "none"
        /\ resp'.view = "Attendance"
        /\ is_valid(resp'.data)
        /\ IsStaff(resp'.user) \/ HasTeacherProfile(resp'.user))
       => /\ resp'.status = HTTP_201_CREATED
          /\ \E r \in attendance' :
                /\ r \notin attendance
                /\ r.id \notin UsedIds
                /\ attendance' = attendance \cup {r}
                /\ r.student = resp'.data.student
                /\ r.status = resp'.data.status]_vars

\* A teacher with no relationship to the student's class, and without
\* is_staff, marked the student present, and the row is in the table.
C9_Witness ==
    /\ resp.op = "create"
    /\ resp.view = "Attendance"
    /\ resp.status = HTTP_201_CREATED
    /\ ~IsStaff(resp.user)
    /\ HasTeacherProfile(resp.user)
    /\ current_class[resp.data.student]
          \notin resolve_teacher_scope(teacher_profile(resp.user))
    /\ \E r \in attendance :
          /\ r.id = resp.target
          /\ r.student = resp.data.student
          /\ r.status = resp.data.status

(* ------------------------------------------------------------------ *)
(* core/permissions.py: create_user_groups and assign_user_to_group    *)
(* ------------------------------------------------------------------ *)
\* Variant of the dictionary of create_user_groups that also answers to the
\* tag 'superuser'.
create_user_groups_WithSuperuser ==
    [admin |-> "School Administrators", teacher |-> "Teachers",
     student |-> "Students", parent |-> "Parents",
     superuser |-> "School Administrators"]

\* The dictionary create_user_groups() returns: role tag -> group.
create_user_groups ==
    [admin |-> "School Administrators", teacher |-> "Teachers",
     student |-> "Students", parent |-> "Parents"]

\* groups.values(), in the dictionary's order
GroupValues ==
    <<create_user_groups.admin, create_user_groups.teacher,
      create_user_groups.student, create_user_groups.parent>>

RoleGroupNames == {"School Administrators", "Teachers", "Students", "Parents"}

\* The role tags a caller may pass: the four of the docstring and one other.
RoleInputs == RoleTags \cup {"superuser"}

\* The user whose role is assigned.
RoleUsers == {"u1"}

\* The process that runs the calls when they do not overlap.
SeqProcs == {"p1"}

\* Variant of user.groups.remove(group) that leaves the membership alone.
groups_remove_Noop(user_groups, group) == user_groups

\* user.groups.remove(group)
groups_remove(user_groups, group) == user_groups \ {group}

\* user.groups.add(group)
groups_add(user_groups, group) == user_groups \cup {group}

\* Variant of the success return that reports whether the membership changed.
AssignReturn_Changed(call) == create_user_groups[call.role] \notin call.before

\* The value a call that took the `role in groups` branch returns.
AssignReturn(call) == TRUE

SetCall(p, call) == calls' = [calls EXCEPT ![p] = call]

\* assign_user_to_group(user, role) is entered.
Begin(p, user, role) ==
    /\ calls[p].pc = "idle"
    /\ SetCall(p, [pc |-> "create_groups", user |-> user, role |-> role,
                   i |-> 1, before |-> groups[user],
                   staff_before |-> is_staff[user], ret |-> FALSE])
    /\ UNCHANGED <<is_staff, groups, auth_group, returned, graph, attendance,
                   grades, resp>>

\* groups = create_user_groups(); if role in groups: ... else return False
CreateGroups(p) ==
    /\ calls[p].pc = "create_groups"
    /\ auth_group' = auth_group \cup RoleGroupNames
    /\ SetCall(p, [calls[p] EXCEPT
                     !.pc = IF calls[p].role \in DOMAIN create_user_groups
                            THEN "remove" ELSE "return",
                     !.ret = FALSE])
    /\ UNCHANGED <<is_staff, groups, returned, graph, attendance, grades, resp>>

\* for group in groups.values(): user.groups.remove(group)  -- one statement
Remove(p) ==
    /\ calls[p].pc = "remove"
    /\ groups' = [groups EXCEPT ![calls[p].user] =
                     groups_remove(@, GroupValues[calls[p].i])]
    /\ SetCall(p, [calls[p] EXCEPT
                     !.i = @ + 1,
                     !.pc = IF calls[p].i = Len(GroupValues)
                            THEN "add" ELSE "remove"])
    /\ UNCHANGED <<is_staff, auth_group, returned, graph, attendance, grades,
                   resp>>

\* user.groups.add(groups[role])
Add(p) ==
    /\ calls[p].pc = "add"
    /\ groups' = [groups EXCEPT ![calls[p].user] =
                     groups_add(@, create_user_groups[calls[p].role])]
    /\ SetCall(p, [calls[p] EXCEPT
                     !.pc = IF calls[p].role = "admin"
                            THEN "set_staff" ELSE "return",
                     !.ret = AssignReturn(calls[p])])
    /\ UNCHANGED <<is_staff, auth_group, returned, graph, attendance, grades,
                   resp>>

\* user.is_staff = True; user.save()
SetStaff(p) ==
    /\ calls[p].pc = "set_staff"
    /\ is_staff' = [is_staff EXCEPT ![calls[p].user] = TRUE]
    /\ SetCall(p, [calls[p] EXCEPT !.pc = "return"])
    /\ UNCHANGED <<groups, auth_group, returned, graph, attendance, grades,
                   resp>>

\* return True / return False
Return(p) ==
    /\ calls[p].pc = "return"
    /\ returned' =
          <<[user |-> calls[p].user, role |-> calls[p].role,
             result |-> calls[p].ret,
             before |-> calls[p].before,
             staff_before |-> calls[p].staff_before,
             after |-> groups[calls[p].user],
             staff_after |-> is_staff[calls[p].user]]>>
          \o SubSeq(returned, 1, IF returned = <<>> THEN 0 ELSE 1)
    /\ SetCall(p, NoCall)
    /\ UNCHANGED <<is_staff, groups, auth_group, graph, attendance, grades,
                   resp>>

\* Somebody else reads user.groups.
ReadGroups(user) ==
    /\ resp' = [NoResp EXCEPT !.op = "read_groups", !.user = user,
                              !.items = groups[user]]
    /\ UNCHANGED <<identity, graph, attendance, grades>>

\* Any membership in the four role groups and any flag for u1; the Group
\* table is still empty.
InitRole ==
    /\ is_staff \in {f \in [Users -> BOOLEAN] :
                       \A u \in Users \ RoleUsers : ~f[u]}
    /\ groups \in {f \in [Users -> SUBSET RoleGroupNames] :
                     \A u \in Users \ RoleUsers : f[u] = {}}
    /\ auth_group = {}
    /\ class_teacher = [c \in Classes |-> NULL]
    /\ cs_teacher = [cs \in ClassSubjects |-> "t1"]
    /\ current_class = [st \in Students |-> "c1"]
    /\ published = [a \in Assessments |-> TRUE]
    /\ attendance = {}
    /\ grades = {}
    /\ resp = NoResp
    /\ calls = NoCalls
    /\ returned = <<>>
    /\ schools = {}
    /\ total_marks = DefaultTotals

NoneRunning == \A q \in Procs : calls[q].pc = "idle"

\* One call at a time: a call is entered when none is running.
NextRole ==
    \/ \E p \in SeqProcs, user \in RoleUsers, role \in RoleInputs :
          NoneRunning /\ Begin(p, user, role)
    \/ \E p \in SeqProcs : CreateGroups(p)
    \/ \E p \in SeqProcs : Remove(p)
    \/ \E p \in SeqProcs : Add(p)
    \/ \E p \in SeqProcs : SetStaff(p)
    \/ \E p \in SeqProcs : Return(p)
    \/ \E user \in RoleUsers : ReadGroups(user)

SpecRole == InitRole /\ [][NextRole]_vars

(* ------------------------------------------------------------------ *)
(* Claims checked under SpecRole                                       *)
(* ------------------------------------------------------------------ *)
\* The calls that have returned, the latest first.
Returned == {returned[i] : i \in 1..Len(returned)}

\* C4: after a successful assign_user_to_group(user, R) with R one of the four
\* tags, whatever role groups the user was in before (several included), the
\* user is in exactly one of the four role groups: the group of R.
C4_ExactlyTheGroupOfTheRole ==
    \A call \in Returned :
        (call.result /\ call.role \in RoleTags)
            => call.after \cap RoleGroupNames = {create_user_groups[call.role]}

\* A call on a user who was in several role groups, none of them the new one,
\* has returned True.
C4_Witness ==
    /\ returned # <<>>
    /\ returned[1].result
    /\ returned[1].role \in RoleTags
    /\ Cardinality(returned[1].before \cap RoleGroupNames) >= 2
    /\ create_user_groups[returned[1].role] \notin returned[1].before
    /\ returned[1].after = {create_user_groups[returned[1].role]}

\* C5: two calls in a row with the same user and the same recognized role both
\* return True, and the second leaves the user's groups and is_staff exactly
\* as the first left them.
C5_SecondCallChangesNothing ==
    (/\ Len(returned) = 2
     /\ returned[1].user = returned[2].user
     /\ returned[1].role = returned[2].role
     /\ returned[1].role \in RoleTags)
        => /\ returned[1].result
           /\ returned[2].result
           /\ returned[1].after = returned[2].after
           /\ returned[1].staff_after = returned[2].staff_after
           /\ returned[1].before = returned[2].after
           /\ returned[1].staff_before = returned[2].staff_after

\* The same role was assigned twice in a row, and the first of the two calls
\* changed the user's groups.
C5_Witness ==
    /\ Len(returned) = 2
    /\ returned[1].user = returned[2].user
    /\ returned[1].role = returned[2].role
    /\ returned[1].role \in RoleTags
    /\ returned[2].before # returned[2].after
    /\ returned[1].result
    /\ returned[1].after = returned[2].after

\* C6: a call with a tag that is none of the four returns False and leaves the
\* user's role groups and is_staff as they were when it was entered.
C6_UnrecognizedRoleFailsWithoutMutation ==
    \A call \in Returned :
        call.role \notin RoleTags
            => /\ ~call.result
               /\ call.after = call.before
               /\ call.staff_after = call.staff_before

\* A call with the tag 'superuser' on a user who holds a role has returned.
C6_Witness ==
    /\ returned # <<>>
    /\ returned[1].role = "superuser"
    /\ ~returned[1].result
    /\ returned[1].before \cap RoleGroupNames # {}
    /\ returned[1].after = returned[1].before

\* C7: while a call runs on a user who held a role when it was entered, a
\* read of that user's groups never finds the user in none of the four role
\* groups.
C7_NoObserverSeesZeroRoles ==
    [][\A p \in Procs :
          (/\ calls[p].pc # "idle"
           /\ calls[p].role \in RoleTags
           /\ calls[p].before \cap RoleGroupNames # {}
           /\ UNCHANGED calls
           /\ resp'.op = "read_groups"
           /\ resp'.user = calls[p].user)
              => resp'.items \cap RoleGroupNames # {}]_vars

(* ------------------------------------------------------------------ *)
(* SpecApi: the read and write endpoints as the request pipeline runs  *)
(* them: permission check, lookup in get_queryset(), object check      *)
(* ------------------------------------------------------------------ *)
\* The outcome of APIView.check_permissions() followed by
\* GenericAPIView.get_object() for a detail request on `view`: 403 when the
\* permission class refuses the caller, 404 when get_queryset() does not hold
\* the row, 403 (500 when the check raises) when the object check refuses it.
get_object_status(view, action, user, method, id, obj) ==
    IF check_permissions(view, action, user) # Allow THEN HTTP_403_FORBIDDEN
    ELSE IF id \notin get_queryset(view, user) THEN HTTP_404_NOT_FOUND
    ELSE LET verdict == has_object_permission(get_permissions(view, action),
                                              user, method, obj) IN
         IF verdict = Raise THEN HTTP_500_INTERNAL_SERVER_ERROR
         ELSE IF verdict = Deny THEN HTTP_403_FORBIDDEN
         ELSE HTTP_200_OK

\* GET /api/assessments/<a>/ : the status the caller receives
AssessmentRetrieveStatus(user, a) ==
    get_object_status("Assessment", "retrieve", user, "GET", a, AssessmentObj(a))

ApiRequest(op, view, user, method, obj, status) ==
    [NoResp EXCEPT !.op = op, !.view = view, !.user = user,
                   !.method = method, !.obj = obj, !.status = status]

\* GET /api/assessments/<a>/
AssessmentRetrieve(user, a) ==
    /\ Idle
    /\ resp' = ApiRequest("retrieve", "Assessment", user, "GET",
                          AssessmentObj(a), AssessmentRetrieveStatus(user, a))
    /\ UNCHANGED <<identity, graph, attendance, grades>>

\* PATCH /api/assessments/<a>/ with {is_published: flag}
AssessmentUpdate(user, a, flag) ==
    /\ Idle
    /\ LET st == get_object_status("Assessment", "partial_update", user,
                                   "PATCH", a, AssessmentObj(a)) IN
       /\ resp' = [ApiRequest("partial_update", "Assessment", user, "PATCH",
                              AssessmentObj(a), st)
                      EXCEPT !.data = [is_published |-> flag]]
       /\ published' = IF st = HTTP_200_OK
                       THEN [published EXCEPT ![a] = flag] ELSE published
    /\ UNCHANGED <<identity, class_teacher, cs_teacher, current_class, schools,
                   total_marks,
                   attendance, grades>>

\* GET /api/grades/
GradeList(user) ==
    /\ Idle
    /\ resp' = IF check_permissions("Grade", "list", user) # Allow
               THEN ApiRequest("list", "Grade", user, "GET", NoObj,
                               HTTP_403_FORBIDDEN)
               ELSE [ApiRequest("list", "Grade", user, "GET", NoObj,
                                HTTP_200_OK)
                       EXCEPT !.items = get_queryset("Grade", user)]
    /\ UNCHANGED <<identity, graph, attendance, grades>>

\* GET /api/grades/<id>/
GradeRetrieve(user, g) ==
    /\ Idle
    /\ g \in grades
    /\ resp' = ApiRequest("retrieve", "Grade", user, "GET", g,
                          get_object_status("Grade", "retrieve", user, "GET",
                                            g.id, g))
    /\ UNCHANGED <<identity, graph, attendance, grades>>

\* APIView.initial(): check_permissions() for `action` on `view`, before any
\* row is looked at.
ViewPermission(view, action, user) ==
    /\ Idle
    /\ resp' = [NoResp EXCEPT !.op = "check_permissions", !.view = view,
                              !.user = user, !.data = [action |-> action],
                              !.rule = get_permissions(view, action),
                              !.result = check_permissions(view, action, user),
                              !.status =
                                 IF check_permissions(view, action, user) = Allow
                                 THEN 0 ELSE HTTP_403_FORBIDDEN]
    /\ UNCHANGED <<identity, graph, attendance, grades>>

SchoolIds == 1..MaxSchools

\* GET /api/schools/
SchoolList(user) ==
    /\ Idle
    /\ resp' = IF check_permissions("School", "list", user) # Allow
               THEN ApiRequest("list", "School", user, "GET", NoObj,
                               HTTP_403_FORBIDDEN)
               ELSE [ApiRequest("list", "School", user, "GET", NoObj,
                                HTTP_200_OK)
                       EXCEPT !.items = schools]
    /\ UNCHANGED <<identity, graph, attendance, grades>>

\* POST /api/schools/ ; `valid` says whether SchoolSerializer accepts the body
SchoolCreate(user, valid) ==
    /\ Idle
    /\ IF check_permissions("School", "create", user) # Allow
       THEN /\ resp' = [ApiRequest("create", "School", user, "POST", NoObj,
                                   HTTP_403_FORBIDDEN)
                          EXCEPT !.data = [valid |-> valid]]
            /\ UNCHANGED schools
       ELSE IF ~valid
       THEN /\ resp' = [ApiRequest("create", "School", user, "POST", NoObj,
                                   HTTP_400_BAD_REQUEST)
                          EXCEPT !.data = [valid |-> valid]]
            /\ UNCHANGED schools
       ELSE /\ SchoolIds \ schools # {}
            /\ LET id == CHOOSE i \in SchoolIds \ schools :
                             \A j \in SchoolIds \ schools : i <= j IN
               /\ schools' = schools \cup {id}
               /\ resp' = [ApiRequest("create", "School", user, "POST",
                                      [kind |-> "School", id |-> id],
                                      HTTP_201_CREATED)
                             EXCEPT !.data = [valid |-> valid]]
    /\ UNCHANGED <<identity, class_teacher, cs_teacher, current_class,
                   published, total_marks, attendance, grades>>

\* Student.objects.filter(current_class=class_instance, is_active=True), and
\* the `students` relation of ClassDetailSerializer; every Student row of the
\* model is active.
ClassStudents(class_instance) ==
    {s \in Students : current_class[s] = class_instance}

\* GET /api/classes/<c>/students_list/ : get_object() looks the class up in
\* the unfiltered queryset of ClassViewSet, IsAuthenticated has no object
\* check, and the students of the class are serialized.
ClassStudentsList(user, c) ==
    /\ Idle
    /\ resp' = IF check_permissions("Class", "students_list", user) # Allow
               THEN ApiRequest("students_list", "Class", user, "GET",
                               [kind |-> "Class", id |-> c],
                               HTTP_403_FORBIDDEN)
               ELSE [ApiRequest("students_list", "Class", user, "GET",
                                [kind |-> "Class", id |-> c], HTTP_200_OK)
                       EXCEPT !.items = ClassStudents(c)]
    /\ UNCHANGED <<identity, graph, attendance, grades>>

\* GET /api/classes/<c>/ : ClassDetailSerializer nests the class's students.
ClassRetrieve(user, c) ==
    /\ Idle
    /\ resp' = IF check_permissions("Class", "retrieve", user) # Allow
               THEN ApiRequest("retrieve", "Class", user, "GET",
                               [kind |-> "Class", id |-> c],
                               HTTP_403_FORBIDDEN)
               ELSE [ApiRequest("retrieve", "Class", user, "GET",
                                [kind |-> "Class", id |-> c], HTTP_200_OK)
                       EXCEPT !.items = ClassStudents(c)]
    /\ UNCHANGED <<identity, graph, attendance, grades>>


\* The graph under SpecApi: no class has a class teacher, s1 sits in c1;
\* is_staff is held by nobody, by u4 or by the teacher u1.
InitApi ==
    /\ is_staff \in {[u \in Users |-> u \in S] : S \in {{}, {"u1"}, {"u4"}}}
    /\ class_teacher = [c \in Classes |-> NULL]
    /\ cs_teacher \in [ClassSubjects -> Teachers]
    /\ current_class \in {f \in [Students -> Classes] : f["s1"] = "c1"}
    /\ published \in [Assessments -> BOOLEAN]
    /\ groups = [u \in Users |-> {}]
    /\ attendance = {}
    /\ grades = EveryGrade
    /\ resp = NoResp
    /\ auth_group = {}
    /\ calls = NoCalls
    /\ returned = <<>>
    /\ schools = {}
    /\ total_marks = DefaultTotals

NextApi ==
    \/ Idle /\ \E user \in AllUsers, a \in Assessments :
          AssessmentRetrieve(user, a)
    \/ Idle /\ \E user \in AllUsers, a \in Assessments, flag \in BOOLEAN :
          AssessmentUpdate(user, a, flag)
    \/ Idle /\ \E user \in AllUsers : GradeList(user)
    \/ Idle /\ \E view \in Views, action \in ReadActions \cup WriteActions,
                  user \in AllUsers :
          ViewPermission(view, action, user)
    \/ Idle /\ \E user \in AllUsers : SchoolList(user)
    \/ Idle /\ \E user \in AllUsers, valid \in BOOLEAN :
          SchoolCreate(user, valid)
    \/ Idle /\ \E user \in AllUsers, g \in grades : GradeRetrieve(user, g)
    \/ Idle /\ \E user \in AllUsers, c \in Classes : ClassStudentsList(user, c)
    \/ Idle /\ \E user \in AllUsers, c \in Classes : ClassRetrieve(user, c)
    \/ Respond

SpecApi == InitApi /\ [][NextApi]_vars

(* ------------------------------------------------------------------ *)
(* Claims checked under SpecApi                                        *)
(* ------------------------------------------------------------------ *)
\* A caller with a student profile, no teacher profile and no is_staff.
StudentOnly(user) ==
    HasStudentProfile(user) /\ ~HasTeacherProfile(user) /\ ~IsStaff(user)

\* C11: a caller who is a student only is served an Assessment exactly when
\* it is published and the class of its class subject is the student's
\* current class; and when an unpublished assessment of the student's class
\* is published, nothing else changing, the retrieve that was refused before
\* is served after.
C11_StudentReadsPublishedOwnClass ==
    [][/\ (/\ resp'.op = "retrieve"
           /\ resp'.view = "Assessment"
           /\ StudentOnly(resp'.user))
          => (resp'.status = HTTP_200_OK
                <=> /\ published[resp'.obj.id]
                    /\ CsClass[AssessmentCs[resp'.obj.id]]
                          = current_class[student_profile(resp'.user)])
       /\ \A a \in Assessments, u \in Users :
             (/\ resp'.op = "partial_update"
              /\ resp'.view = "Assessment"
              /\ resp'.obj.id = a
              /\ ~published[a]
              /\ published'[a]
              /\ StudentOnly(u)
              /\ CsClass[AssessmentCs[a]] = current_class[student_profile(u)])
             => /\ AssessmentRetrieveStatus(u, a) # HTTP_200_OK
                /\ AssessmentRetrieveStatus(u, a)' = HTTP_200_OK]_vars

\* An administrator has just published an assessment of the class of a
\* student, who is now served it.
C11_Witness ==
    /\ resp.op = "partial_update"
    /\ resp.view = "Assessment"
    /\ resp.status = HTTP_200_OK
    /\ ~resp.obj.is_published
    /\ published[resp.obj.id]
    /\ \E u \in Users :
          /\ StudentOnly(u)
          /\ CsClass[AssessmentCs[resp.obj.id]]
                = current_class[student_profile(u)]
          /\ AssessmentRetrieveStatus(u, resp.obj.id) = HTTP_200_OK

\* C12: a caller who is a student only reads a Grade exactly when the grade's
\* student is the caller's own profile: the list is served and holds the
\* caller's own grades and no others, and a retrieve is served exactly for
\* those.
C12_StudentReadsOwnGrades ==
    (resp.view = "Grade" /\ StudentOnly(resp.user))
    => /\ resp.op = "list"
          => /\ resp.status = HTTP_200_OK
             /\ resp.items = {g.id : g \in {h \in grades :
                                  h.student = student_profile(resp.user)}}
       /\ resp.op = "retrieve"
          => (resp.status = HTTP_200_OK
                <=> resp.obj.student = student_profile(resp.user))

\* C13 (as claimed): every authenticated caller passes the permission check
\* of list and retrieve on School and Department.
C13_AuthenticatedReadsSchools ==
    (/\ resp.op = "check_permissions"
     /\ resp.view \in {"School", "Department"}
     /\ resp.data.action \in ReadActions
     /\ is_authenticated(resp.user))
    => resp.result = Allow

\* C13 (amended): on School and Department every action, list and retrieve
\* as well as the writes, passes the permission check exactly for an
\* administrator; every other caller is refused with 403.
C13_OnlyAdministratorsReachSchools ==
    (/\ resp.op = "check_permissions"
     /\ resp.view \in {"School", "Department"})
    => /\ resp.result = Allow <=> IsStaff(resp.user)
       /\ ~IsStaff(resp.user) => resp.status = HTTP_403_FORBIDDEN

\* An authenticated caller who is a teacher without is_staff asked to list
\* departments and was refused.
C13_Witness ==
    /\ resp.op = "check_permissions"
    /\ resp.view = "Department"
    /\ resp.data.action = "list"
    /\ HasTeacherProfile(resp.user)
    /\ ~IsStaff(resp.user)
    /\ resp.result = Deny
    /\ resp.status = HTTP_403_FORBIDDEN

\* C14: an authenticated caller without is_staff is refused listing schools
\* and creating a school, and the refused create leaves the School table as
\* it was; an administrator's create of a valid school answers 201 and adds
\* exactly one row.
C14_SchoolWritesByAdministratorOnly ==
    [][(/\ resp.op = "none"
        /\ resp'.view = "School"
        /\ resp'.op \in {"list", "create"}
        /\ is_authenticated(resp'.user))
       => /\ ~IsStaff(resp'.user)
             => /\ resp'.status = HTTP_403_FORBIDDEN
                /\ resp'.items = {}
                /\ schools' = schools
          /\ (IsStaff(resp'.user) /\ resp'.op = "create" /\ resp'.data.valid)
             => /\ resp'.status = HTTP_201_CREATED
                /\ \E id \in SchoolIds \ schools :
                      schools' = schools \cup {id}]_vars

\* After an administrator created a school, a caller without is_staff was
\* refused a create, and the table still holds that one school.
C14_Witness ==
    /\ resp.op = "create"
    /\ resp.view = "School"
    /\ resp.status = HTTP_403_FORBIDDEN
    /\ is_authenticated(resp.user)
    /\ ~IsStaff(resp.user)
    /\ Cardinality(schools) = 1

NoRole(user) ==
    /\ is_authenticated(user)
    /\ ~IsStaff(user)
    /\ ~HasTeacherProfile(user)
    /\ ~HasStudentProfile(user)

\* A caller with a teacher profile and no is_staff.
NonAdminTeacher(user) == HasTeacherProfile(user) /\ ~IsStaff(user)

\* C16: for an authenticated caller who is neither administrator nor teacher
\* nor student, get_queryset of the Student, Attendance, Assessment and Grade
\* ViewSets returns no record.
C16_NoRoleSeesNothing ==
    (resp.op = "get_queryset" /\ NoRole(resp.user)) => resp.items = {}

\* C17: for a teacher without is_staff (and without a student profile),
\* get_queryset of StudentViewSet returns exactly the students whose current
\* class the teacher heads or has a teaching assignment in.
C17_TeacherSeesStudentsOfScope ==
    (/\ resp.op = "get_queryset"
     /\ resp.view = "Student"
     /\ NonAdminTeacher(resp.user)
     /\ ~HasStudentProfile(resp.user))
    => resp.items =
          {s \in Students :
              current_class[s]
                 \in resolve_teacher_scope(teacher_profile(resp.user))}

\* A class teacher with no teaching assignment in the class listed students
\* and received a student of that class, and not every student.
C17_Witness ==
    /\ resp.op = "get_queryset"
    /\ resp.view = "Student"
    /\ NonAdminTeacher(resp.user)
    /\ ~HasStudentProfile(resp.user)
    /\ resp.items # Students
    /\ \E s \in resp.items :
          /\ class_teacher[current_class[s]] = teacher_profile(resp.user)
          /\ ~teaching_assignments_exists(teacher_profile(resp.user),
                                          current_class[s])

\* C18: for a teacher T without is_staff, get_queryset of AttendanceViewSet
\* holds every row whose class_subject is taught by T, and holds no row whose
\* class_subject is not taught by T and whose student's current class is
\* outside T's scope.
C18_TeacherSeesAttendanceOfOwnSubjects ==
    (/\ resp.op = "get_queryset"
     /\ resp.view = "Attendance"
     /\ NonAdminTeacher(resp.user))
    => \A r \in attendance :
          /\ (/\ r.class_subject # NULL
              /\ cs_teacher[r.class_subject] = teacher_profile(resp.user))
             => r.id \in resp.items
          /\ (/\ \/ r.class_subject = NULL
                  \/ cs_teacher[r.class_subject] # teacher_profile(resp.user)
              /\ current_class[r.student]
                    \notin resolve_teacher_scope(teacher_profile(resp.user)))
             => r.id \notin resp.items

\* A teacher listed attendance and received a row of the teacher's own class
\* subject for a student of a class another teacher heads, and did not
\* receive a row of a class outside the teacher's scope.
C18_Witness ==
    /\ resp.op = "get_queryset"
    /\ resp.view = "Attendance"
    /\ NonAdminTeacher(resp.user)
    /\ \E r \in attendance :
          /\ r.id \in resp.items
          /\ r.class_subject # NULL
          /\ cs_teacher[r.class_subject] = teacher_profile(resp.user)
          /\ class_teacher[current_class[r.student]]
                # teacher_profile(resp.user)
    /\ \E r \in attendance :
          /\ r.id \notin resp.items
          /\ current_class[r.student]
                \notin resolve_teacher_scope(teacher_profile(resp.user))

\* C19: for a teacher T without is_staff, get_queryset of AttendanceViewSet
\* holds every row whose student's current class is in T's scope (headed by
\* T, or with a teaching assignment of T), whatever the row's class_subject.
C19_TeacherSeesAttendanceOfScope ==
    (/\ resp.op = "get_queryset"
     /\ resp.view = "Attendance"
     /\ NonAdminTeacher(resp.user))
    => \A r \in attendance :
          current_class[r.student]
             \in resolve_teacher_scope(teacher_profile(resp.user))
          => r.id \in resp.items

\* C20: no object check of a caller without is_staff fails on a target with
\* a missing relationship: it returns allow or deny, it does not raise.
C20_NoCheckRaises ==
    (/\ resp.op = "has_object_permission"
     /\ ~IsStaff(resp.user))
    => resp.result \in {Allow, Deny}

(* ------------------------------------------------------------------ *)
(* The checks and the filters are pure, under SpecPerm                *)
(* ------------------------------------------------------------------ *)

\* What a check may not touch: the tables, the relationships, the groups
\* and the flags of every user.
Stored ==
    <<is_staff, groups, auth_group, class_teacher, cs_teacher, current_class,
      published, total_marks, schools, attendance, grades>>

CheckOps == {"has_permission", "has_object_permission", "get_queryset"}

\* C21: a step that evaluates has_permission, has_object_permission or
\* get_queryset, whatever its verdict, leaves every record, every
\* relationship and every user's groups and is_staff flag as they were.
C21_ChecksLeaveStateUnchanged ==
    [][resp'.op \in CheckOps => UNCHANGED Stored]_vars

\* CanViewStudentData has denied a student another student's record, has
\* been evaluated on a populated system: both tables are full and a flag is
\* set for some user.
C21_Witness ==
    /\ resp.op = "has_object_permission"
    /\ resp.rule = "CanViewStudentData"
    /\ resp.obj.kind = "Student"
    /\ resp.result = Deny
    /\ StudentOnly(resp.user)
    /\ attendance = EveryAttendance
    /\ grades = EveryGrade
    /\ \E u \in Users : is_staff[u]

(* ------------------------------------------------------------------ *)
(* SpecLetter: Grade.save as a function of the marks and the total     *)
(* ------------------------------------------------------------------ *)

\* marks_obtained is a DecimalField with two decimal places: the model holds
\* it as a whole number of hundredths of a mark.
\* Largest total_marks drawn.
MaxTotal == 12

\* Largest marks_obtained drawn, in hundredths of a mark.
MaxMarks == 1200

\* Grade.percentage, in hundredths of a percent, rounded down:
\* (marks / total) * 100 with marks counted in hundredths. The Decimal
\* quotient carries 28 significant digits, so against a whole threshold it
\* compares as the exact quotient does, and so does the rounded-down value.
percentage(marks_obtained, total) == (marks_obtained * 100) \div total

\* The same table with the A+ band starting above 90 percent.
grade_letter_StrictTop(p) ==
    IF p > 9000 THEN "A+"
    ELSE IF p >= 8000 THEN "A"
    ELSE IF p >= 7000 THEN "B+"
    ELSE IF p >= 6000 THEN "B"
    ELSE IF p >= 5000 THEN "C+"
    ELSE IF p >= 4000 THEN "C"
    ELSE "F"

\* The if / elif chain of Grade.save, on a percentage in hundredths.
grade_letter(p) ==
    IF p >= 9000 THEN "A+"
    ELSE IF p >= 8000 THEN "A"
    ELSE IF p >= 7000 THEN "B+"
    ELSE IF p >= 6000 THEN "B"
    ELSE IF p >= 5000 THEN "C+"
    ELSE IF p >= 4000 THEN "C"
    ELSE "F"

\* A Grade instance before save(): grade_letter is blank.
GradeInstance(id, student, assessment, marks_obtained) ==
    [kind |-> "Grade", id |-> id, student |-> student,
     assessment |-> assessment, marks_obtained |-> marks_obtained,
     grade_letter |-> ""]

\* Dividing by a total of 0 raises before anything is written.
save_raises(instance) == total_marks[instance.assessment] = 0

\* Grade.save: the row that super().save() writes.
Grade_save(instance) ==
    [instance EXCEPT !.grade_letter =
        grade_letter(percentage(instance.marks_obtained,
                                total_marks[instance.assessment]))]

\* Grade.objects.create(student=s1, assessment=a1, marks_obtained=...) on an
\* empty table.
GradeObjectsCreate(marks_obtained) ==
    /\ grades = {}
    /\ LET instance == GradeInstance(1, "s1", "a1", marks_obtained) IN
       IF save_raises(instance)
       THEN /\ resp' = [NoResp EXCEPT !.op = "save", !.obj = instance,
                                      !.result = Raise]
            /\ UNCHANGED grades
       ELSE /\ resp' = [NoResp EXCEPT !.op = "save",
                                      !.obj = Grade_save(instance),
                                      !.result = Allow]
            /\ grades' = {Grade_save(instance)}
    /\ UNCHANGED <<identity, graph, attendance>>

InitLetter ==
    /\ is_staff = [u \in Users |-> FALSE]
    /\ groups = [u \in Users |-> {}]
    /\ class_teacher = [c \in Classes |-> NULL]
    /\ cs_teacher = [cs \in ClassSubjects |-> "t1"]
    /\ current_class = [s \in Students |-> "c1"]
    /\ published = [a \in Assessments |-> TRUE]
    /\ attendance = {}
    /\ grades = {}
    /\ resp = NoResp
    /\ auth_group = {}
    /\ calls = NoCalls
    /\ returned = <<>>
    /\ schools = {}
    /\ total_marks \in {[DefaultTotals EXCEPT !["a1"] = t] : t \in 0..MaxTotal}

NextLetter == \E marks_obtained \in 0..MaxMarks : GradeObjectsCreate(marks_obtained)

SpecLetter == InitLetter /\ [][NextLetter]_vars

\* The letter the threshold table gives m hundredths of a mark out of t.
TableLetter(m, t) ==
    CASE m >= 90 * t -> "A+"
      [] m < 90 * t /\ m >= 80 * t -> "A"
      [] m < 80 * t /\ m >= 70 * t -> "B+"
      [] m < 70 * t /\ m >= 60 * t -> "B"
      [] m < 60 * t /\ m >= 50 * t -> "C+"
      [] m < 50 * t /\ m >= 40 * t -> "C"
      [] m < 40 * t -> "F"

MaxGrades == 2

GradeIds == 1..MaxGrades

\* marks_obtained values submitted, in hundredths: 4.50 and 9.00.
SubmittedMarks == {450, 900}

\* total_marks values an administrator submits.
SubmittedTotals == {0, 5, 10}

\* Stands for a request body that carries no marks_obtained.
NoMarks == 0 - 1

\* Request bodies of the grade endpoints; a body without marks_obtained is
\* the invalid one.
GradeInputs ==
    [student : Students, assessment : Assessments,
     marks_obtained : SubmittedMarks \cup {NoMarks}]

\* GradeSerializer.is_valid(): marks_obtained is required, and the
\* UniqueTogetherValidator of (student, assessment) looks at every row but
\* the one being updated (id 0 on create).
GradeSerializer_is_valid(data, id) ==
    /\ data.marks_obtained # NoMarks
    /\ ~\E g \in grades : /\ g.id # id
                          /\ g.student = data.student
                          /\ g.assessment = data.assessment

\* The id the next row gets (0 when the table is full and none is stored).
FreshGradeId ==
    LET free == GradeIds \ {g.id : g \in grades} IN
    IF free = {} THEN 0
    ELSE CHOOSE i \in free : \A j \in free : i <= j

GradeRequest(op, user, method, id, data, status) ==
    [NoResp EXCEPT !.op = op, !.view = "Grade", !.user = user,
                   !.method = method, !.target = id, !.data = data,
                   !.status = status]

\* get_object() of GradeViewSet for the row with this id.
GradeLookup(action, user, method, id) ==
    IF ~\E g \in grades : g.id = id
    THEN IF check_permissions("Grade", action, user) # Allow
         THEN HTTP_403_FORBIDDEN ELSE HTTP_404_NOT_FOUND
    ELSE get_object_status("Grade", action, user, method, id,
                           CHOOSE g \in grades : g.id = id)

\* POST /api/grades/ : create runs has_permission only, then the serializer,
\* then Grade.save.
GradeCreate(user, data) ==
    /\ Idle
    /\ LET instance == GradeInstance(FreshGradeId, data.student,
                                     data.assessment, data.marks_obtained) IN
       IF check_permissions("Grade", "create", user) # Allow
       THEN /\ resp' = GradeRequest("create", user, "POST", 0, data,
                                    HTTP_403_FORBIDDEN)
            /\ UNCHANGED grades
       ELSE IF ~GradeSerializer_is_valid(data, 0)
       THEN /\ resp' = GradeRequest("create", user, "POST", 0, data,
                                    HTTP_400_BAD_REQUEST)
            /\ UNCHANGED grades
       ELSE IF save_raises(instance)
       THEN /\ resp' = GradeRequest("create", user, "POST", 0, data,
                                    HTTP_500_INTERNAL_SERVER_ERROR)
            /\ UNCHANGED grades
       ELSE /\ Cardinality(grades) < MaxGrades
            /\ grades' = grades \cup {Grade_save(instance)}
            /\ resp' = GradeRequest("create", user, "POST", FreshGradeId, data,
                                    HTTP_201_CREATED)
    /\ UNCHANGED <<identity, graph, attendance>>

\* PUT /api/grades/<id>/
GradeUpdate(user, id, data) ==
    /\ Idle
    /\ LET st == GradeLookup("update", user, "PUT", id)
           instance == GradeInstance(id, data.student, data.assessment,
                                     data.marks_obtained) IN
       IF st # HTTP_200_OK
       THEN /\ resp' = GradeRequest("update", user, "PUT", id, data, st)
            /\ UNCHANGED grades
       ELSE IF ~GradeSerializer_is_valid(data, id)
       THEN /\ resp' = GradeRequest("update", user, "PUT", id, data,
                                    HTTP_400_BAD_REQUEST)
            /\ UNCHANGED grades
       ELSE IF save_raises(instance)
       THEN /\ resp' = GradeRequest("update", user, "PUT", id, data,
                                    HTTP_500_INTERNAL_SERVER_ERROR)
            /\ UNCHANGED grades
       ELSE /\ grades' = {g \in grades : g.id # id}
                            \cup {Grade_save(instance)}
            /\ resp' = GradeRequest("update", user, "PUT", id, data,
                                    HTTP_200_OK)
    /\ UNCHANGED <<identity, graph, attendance>>

\* DELETE /api/grades/<id>/
GradeDestroy(user, id) ==
    /\ Idle
    /\ LET st == GradeLookup("destroy", user, "DELETE", id) IN
       IF st # HTTP_200_OK
       THEN /\ resp' = GradeRequest("destroy", user, "DELETE", id, NoData, st)
            /\ UNCHANGED grades
       ELSE /\ grades' = {g \in grades : g.id # id}
            /\ resp' = GradeRequest("destroy", user, "DELETE", id, NoData,
                                    HTTP_204_NO_CONTENT)
    /\ UNCHANGED <<identity, graph, attendance>>

\* PATCH /api/assessments/<a>/ with {total_marks: total}: the Assessment row
\* is saved; no Grade is saved again.
AssessmentSetTotal(user, a, total) ==
    /\ Idle
    /\ LET st == get_object_status("Assessment", "partial_update", user,
                                   "PATCH", a, AssessmentObj(a)) IN
       /\ resp' = [ApiRequest("partial_update", "Assessment", user, "PATCH",
                              AssessmentObj(a), st)
                      EXCEPT !.data = [total_marks |-> total]]
       /\ total_marks' = IF st = HTTP_200_OK
                         THEN [total_marks EXCEPT ![a] = total]
                         ELSE total_marks
    /\ UNCHANGED <<identity, class_teacher, cs_teacher, current_class,
                   published, schools, attendance, grades>>

\* u4 is the administrator or nobody is; the teacher of each class subject is
\* drawn; the Grade table is empty.
InitGrade ==
    /\ is_staff \in {[u \in Users |-> u \in S] : S \in {{}, {"u4"}}}
    /\ class_teacher = [c \in Classes |-> NULL]
    /\ cs_teacher \in [ClassSubjects -> Teachers]
    /\ current_class = [s \in Students |-> IF s = "s1" THEN "c1" ELSE "c2"]
    /\ published = [a \in Assessments |-> TRUE]
    /\ groups = [u \in Users |-> {}]
    /\ attendance = {}
    /\ grades = {}
    /\ resp = NoResp
    /\ auth_group = {}
    /\ calls = NoCalls
    /\ returned = <<>>
    /\ schools = {}
    /\ total_marks = DefaultTotals

NextGrade ==
    \/ Idle /\ \E user \in AllUsers, data \in GradeInputs :
          GradeCreate(user, data)
    \/ Idle /\ \E user \in AllUsers, id \in GradeIds, data \in GradeInputs :
          GradeUpdate(user, id, data)
    \/ Idle /\ \E user \in AllUsers, id \in GradeIds : GradeDestroy(user, id)
    \/ Idle /\ \E user \in AllUsers, a \in Assessments,
                  total \in SubmittedTotals :
          AssessmentSetTotal(user, a, total)
    \/ Respond

SpecGrade == InitGrade /\ [][NextGrade]_vars

\* The rows a step writes: those it adds, replaces or removes.
GradesTouched == (grades' \ grades) \cup (grades \ grades')

\* C23: whatever Grade request a teacher without is_staff sends, create
\* included, every Grade row the request adds, changes or removes belongs to
\* an assessment whose class subject is taught by that teacher.
C23_TeacherWritesOnlyOwnAssessments ==
    [][\A u \in Users :
          (resp'.view = "Grade" /\ resp'.user = u /\ NonAdminTeacher(u)
           /\ ~HasStudentProfile(u))
          => \A g \in GradesTouched :
                cs_teacher[AssessmentCs[g.assessment]] = teacher_profile(u)
      ]_vars

\* C29: at every moment each stored Grade carries the letter the threshold
\* table gives its marks_obtained out of the total_marks its assessment has
\* now, also after the assessment's total_marks was changed.
C29_StoredLetterMatchesCurrentTotal ==
    \A g \in grades :
        \A t \in SubmittedTotals \ {0} :
            total_marks[g.assessment] = t
                => g.grade_letter = TableLetter(g.marks_obtained, t)

(* ------------------------------------------------------------------ *)
(* The administrator flag and the role group, under SpecRole           *)
(* ------------------------------------------------------------------ *)

\* The calls on record all succeeded, and the one that began first found the
\* user without is_staff.
StartedWithoutFlag ==
    /\ returned # <<>>
    /\ ~returned[Len(returned)].staff_before
    /\ \A call \in Returned : call.result

\* C24: for a user who starts without is_staff, after every successful
\* assign_user_to_group in a row is_staff is True exactly when the user's
\* role group is School Administrators; once an administrator was reassigned
\* to teacher, student or parent, IsAdminUser refuses the user.
C24_StaffFlagFollowsRole ==
    StartedWithoutFlag =>
        /\ \A call \in Returned :
              call.staff_after <=>
                  (create_user_groups.admin \in call.after)
        /\ \A user \in RoleUsers :
              (NoneRunning /\ returned[1].user = user
               /\ returned[1].role # "admin")
                  => IsAdminUser_has_permission(user) = Deny

(* ------------------------------------------------------------------ *)
(* SpecRoleConc: two assign_user_to_group calls that may overlap       *)
(* ------------------------------------------------------------------ *)

\* Calls entered in one run.
MaxCalls == 2

\* A call is entered by a process that is not inside one, whether or not
\* another call is running: the function takes no lock and opens no
\* transaction.
BeginConc(p, user, role) ==
    /\ Len(returned) + Cardinality({q \in Procs : calls[q].pc # "idle"})
          < MaxCalls
    /\ Begin(p, user, role)

NextRoleConc ==
    \/ \E p \in Procs, user \in RoleUsers, role \in RoleTags :
          BeginConc(p, user, role)
    \/ \E p \in Procs : CreateGroups(p)
    \/ \E p \in Procs : Remove(p)
    \/ \E p \in Procs : Add(p)
    \/ \E p \in Procs : SetStaff(p)
    \/ \E p \in Procs : Return(p)

SpecRoleConc == InitRole /\ [][NextRoleConc]_vars

\* C25: when two assign_user_to_group calls for the same user with two
\* different recognized roles have both returned, however their remove and
\* add steps were interleaved, the user is in exactly one of the four role
\* groups.
C25_OverlappingCallsLeaveOneRole ==
    \A user \in RoleUsers :
        (/\ Len(returned) = 2
         /\ NoneRunning
         /\ \A call \in Returned : call.user = user /\ call.result
         /\ returned[1].role # returned[2].role)
            => Cardinality(groups[user] \cap RoleGroupNames) = 1

(* ------------------------------------------------------------------ *)
(* List access and object access to Student records, under SpecPerm    *)
(* ------------------------------------------------------------------ *)

\* C26: for every authenticated user, with is_staff, a teacher profile, a
\* student profile, both profiles or none, and every Student s: s is in
\* StudentViewSet.get_queryset() exactly when
\* CanViewStudentData.has_object_permission allows the user on s.
C26_StudentListAgreesWithObjectCheck ==
    /\ (/\ resp.op = "has_object_permission"
        /\ resp.rule = "CanViewStudentData"
        /\ resp.obj.kind = "Student"
        /\ is_authenticated(resp.user))
          => (resp.result = Allow
                <=> resp.obj.id \in StudentViewSet_get_queryset(resp.user))
    /\ (/\ resp.op = "get_queryset"
        /\ resp.view = "Student"
        /\ is_authenticated(resp.user))
          => \A s \in Students :
                s \in resp.items
                   <=> CanViewStudentData_has_object_permission(
                           resp.user, "GET", StudentObj(s)) = Allow

\* The user with both profiles was refused a student of a class they teach:
\* the student branch comes first in the check and in the filter.
C26_Witness ==
    /\ resp.op = "has_object_permission"
    /\ resp.rule = "CanViewStudentData"
    /\ resp.obj.kind = "Student"
    /\ HasTeacherProfile(resp.user)
    /\ HasStudentProfile(resp.user)
    /\ ~IsStaff(resp.user)
    /\ resp.obj.user # resp.user
    /\ teaching_assignments_exists(teacher_profile(resp.user),
                                   resp.obj.current_class)
    /\ resp.result = Deny

(* ------------------------------------------------------------------ *)
(* Student records handed out by the class endpoints, under SpecApi    *)
(* ------------------------------------------------------------------ *)

\* C27: no read hands a caller without is_staff a Student record outside the
\* caller's scope (the student's own record, the students of a teacher's
\* classes, nothing otherwise), the students_list action and the detail view
\* of a class included.
C27_ClassReadsStayInScope ==
    \A u \in Users :
        (/\ resp.view = "Class"
         /\ resp.op \in {"students_list", "retrieve"}
         /\ resp.user = u
         /\ resp.status = HTTP_200_OK
         /\ ~IsStaff(u))
            => resp.items \subseteq StudentViewSet_get_queryset(u)

(* ------------------------------------------------------------------ *)
(* Updating and deleting attendance out of the filter, under SpecAtt   *)
(* ------------------------------------------------------------------ *)

\* The filter of a teacher, row by row: the teacher heads the class of the
\* row's student, or teaches the row's class subject.
InTeacherFilter(row, teacher) ==
    \/ class_teacher[current_class[row.student]] = teacher
    \/ /\ row.class_subject # NULL
       /\ cs_teacher[row.class_subject] = teacher

\* C28: a teacher T without is_staff changes or removes an existing
\* Attendance row only if T heads the class of the row's student or teaches
\* the row's class subject; an update or delete aimed at any other row is
\* answered 404 and leaves the table as it was.
C28_UpdateOutsideFilterFails ==
    [][\A u \in Users, id \in AttIds :
          (/\ resp'.view = "Attendance"
           /\ resp'.op \in {"update", "destroy"}
           /\ resp'.user = u
           /\ resp'.target = id
           /\ HasTeacherProfile(u)
           /\ ~IsStaff(u))
          => LET mine == {r \in attendance :
                            r.id = id /\ InTeacherFilter(r, teacher_profile(u))}
             IN /\ mine = {} => /\ resp'.status = HTTP_404_NOT_FOUND
                                /\ attendance' = attendance
                /\ attendance' # attendance => mine # {}
      ]_vars

\* A teacher without is_staff aimed an update at a row that exists outside
\* the teacher's filter; the answer was 404 and the row kept its status.
C28_Witness ==
    /\ resp.view = "Attendance"
    /\ resp.op = "update"
    /\ resp.status = HTTP_404_NOT_FOUND
    /\ HasTeacherProfile(resp.user)
    /\ ~IsStaff(resp.user)
    /\ is_valid(resp.data)
    /\ \E r \in attendance :
          /\ r.id = resp.target
          /\ ~InTeacherFilter(r, teacher_profile(resp.user))
          /\ r.status # resp.data.status

(* ------------------------------------------------------------------ *)
(* SpecBulk: POST /api/attendance/mark_attendance/                     *)
(* ------------------------------------------------------------------ *)

\* Longest attendance_records list submitted.
MaxBatch == 2

\* Rows the Attendance table may hold under SpecBulk.
MaxBulkRows == 3

\* The records a client puts in attendance_records: two valid ones, for the
\* same day, and one whose status is no choice of the model.
BulkRecords ==
    {[student |-> "s1", class_subject |-> "cs1", status |-> "present",
      date |-> "d1"],
     [student |-> "s2", class_subject |-> NULL, status |-> "absent",
      date |-> "d1"],
     [student |-> "s1", class_subject |-> NULL, status |-> "holiday",
      date |-> "d1"]}

RECURSIVE BatchesOfLength(_)
BatchesOfLength(n) ==
    IF n = 0 THEN {<<>>}
    ELSE {Append(b, r) : b \in BatchesOfLength(n - 1), r \in BulkRecords}

Batches == UNION {BatchesOfLength(n) : n \in 0..MaxBatch}

BulkRow(id, record) ==
    [kind |-> "Attendance", id |-> id, student |-> record.student,
     class_subject |-> record.class_subject, status |-> record.status,
     date |-> record.date]

\* AttendanceSerializer.is_valid() against the table as it is when the
\* record's turn comes: the field checks, then the UniqueTogetherValidator of
\* (student, date, class_subject), which is skipped when class_subject is
\* None.
AttendanceSerializer_is_valid(record, table) ==
    /\ is_valid(record)
    /\ \/ record.class_subject = NULL
       \/ ~\E r \in table : /\ r.student = record.student
                            /\ r.date = record.date
                            /\ r.class_subject = record.class_subject

NextAttendanceId(table) == Cardinality(table) + 1

\* Variant of the loop that gives up at the first invalid record.
RECURSIVE mark_attendance_loop_StopAtInvalid(_, _)
mark_attendance_loop_StopAtInvalid(records, acc) ==
    IF records = <<>> THEN acc
    ELSE IF AttendanceSerializer_is_valid(Head(records), acc.table)
    THEN LET row == BulkRow(NextAttendanceId(acc.table), Head(records)) IN
         mark_attendance_loop_StopAtInvalid(
             Tail(records),
             [table |-> acc.table \cup {row},
              created_records |-> Append(acc.created_records, row)])
    ELSE acc

\* for record in attendance_data: the table and the created_records list
\* after the remaining records were handled.
RECURSIVE mark_attendance_loop(_, _)
mark_attendance_loop(records, acc) ==
    IF records = <<>> THEN acc
    ELSE IF AttendanceSerializer_is_valid(Head(records), acc.table)
    THEN LET row == BulkRow(NextAttendanceId(acc.table), Head(records)) IN
         mark_attendance_loop(
             Tail(records),
             [table |-> acc.table \cup {row},
              created_records |-> Append(acc.created_records, row)])
    ELSE mark_attendance_loop(Tail(records), acc)

\* AttendanceViewSet.mark_attendance
MarkAttendance(user, attendance_data) ==
    /\ Idle
    /\ Cardinality(attendance) + Len(attendance_data) <= MaxBulkRows
    /\ IF check_permissions("Attendance", "mark_attendance", user) # Allow
       THEN /\ resp' = [NoResp EXCEPT
                          !.op = "mark_attendance", !.view = "Attendance",
                          !.user = user, !.method = "POST",
                          !.status = HTTP_403_FORBIDDEN,
                          !.data = [attendance_records |-> attendance_data,
                                    created_records |-> 0]]
            /\ UNCHANGED attendance
       ELSE LET done == mark_attendance_loop(
                            attendance_data,
                            [table |-> attendance, created_records |-> <<>>])
            IN /\ attendance' = done.table
               /\ resp' = [NoResp EXCEPT
                             !.op = "mark_attendance", !.view = "Attendance",
                             !.user = user, !.method = "POST",
                             !.status = HTTP_201_CREATED,
                             !.items = {done.created_records[i] :
                                          i \in 1..Len(done.created_records)},
                             !.data = [attendance_records |-> attendance_data,
                                       created_records |->
                                           Len(done.created_records)]]
    /\ UNCHANGED <<identity, graph, grades>>

\* u4 is the administrator or nobody is; the table is empty.
InitBulk ==
    /\ is_staff \in {[u \in Users |-> u \in S] : S \in {{}, {"u4"}}}
    /\ class_teacher = [c \in Classes |-> NULL]
    /\ cs_teacher = [cs \in ClassSubjects |-> "t1"]
    /\ current_class = [s \in Students |-> "c1"]
    /\ published = [a \in Assessments |-> TRUE]
    /\ groups = [u \in Users |-> {}]
    /\ attendance = {}
    /\ grades = {}
    /\ resp = NoResp
    /\ auth_group = {}
    /\ calls = NoCalls
    /\ returned = <<>>
    /\ schools = {}
    /\ total_marks = DefaultTotals

NextBulk ==
    \/ Idle /\ \E user \in AllUsers, attendance_data \in Batches :
          MarkAttendance(user, attendance_data)
    \/ Respond

SpecBulk == InitBulk /\ [][NextBulk]_vars

\* The record's fields are acceptable.
FieldsValid(record) ==
    /\ record.student \in Students
    /\ record.status \in ATTENDANCE_CHOICES

\* The row carries the record.
Carries(row, record) ==
    /\ row.student = record.student
    /\ row.class_subject = record.class_subject
    /\ row.status = record.status
    /\ row.date = record.date

\* The record is valid and collides with no row of the table.
Storable(record, table) ==
    /\ FieldsValid(record)
    /\ ~\E r \in table : /\ r.student = record.student
                         /\ r.date = record.date
                         /\ r.class_subject = record.class_subject

\* C30: mark_attendance handles each record on its own: a valid record is
\* stored even when other records of the batch are invalid, an invalid record
\* is skipped without touching the rest, created_records equals the number
\* of rows stored, and the answer is 201 also when the batch is empty or
\* wholly invalid, with a count of 0.
C30_BulkRecordsAreIndependent ==
    [][(resp'.op = "mark_attendance" /\ resp'.status # HTTP_403_FORBIDDEN)
       => LET batch == resp'.data.attendance_records
              stored == attendance' \ attendance
          IN /\ resp'.status = HTTP_201_CREATED
             /\ attendance \subseteq attendance'
             /\ resp'.data.created_records = Cardinality(stored)
             /\ resp'.items = stored
             /\ \A i \in 1..Len(batch) :
                   Storable(batch[i], attendance)
                      => \E row \in stored : Carries(row, batch[i])
             /\ \A row \in stored :
                   \E i \in 1..Len(batch) :
                      FieldsValid(batch[i]) /\ Carries(row, batch[i])
             /\ (\A i \in 1..Len(batch) : ~FieldsValid(batch[i]))
                   => Cardinality(stored) = 0
      ]_vars

\* A batch of a valid record after an invalid one was answered 201 with a
\* count of 1 and the valid record in the table.
C30_Witness ==
    /\ resp.op = "mark_attendance"
    /\ resp.status = HTTP_201_CREATED
    /\ Len(resp.data.attendance_records) = 2
    /\ ~FieldsValid(resp.data.attendance_records[1])
    /\ FieldsValid(resp.data.attendance_records[2])
    /\ resp.data.created_records = 1
    /\ \E row \in attendance : Carries(row, resp.data.attendance_records[2])

====
